---------------------------- MODULE Spec2Model ----------------------------
(***************************************************************************)
(* State-machine model of the completion machinery of the IEP editor:      *)
(*   - AutoCompletion (src/codeeditor/extensions/autocompletion.py): the   *)
(*     completion session of the code editor (anchor, completer model,     *)
(*     recent completions, popup);                                         *)
(*   - BaseTextCtrl (src/baseTextCtrl.py): the delayed completion query    *)
(*     and the processing of its response.                                 *)
(* Text is a sequence of one-character strings; positions are 0-based      *)
(* offsets as in the source, sequences are 1-based.                        *)
(***************************************************************************)
EXTENDS Integers, Sequences, FiniteSets, TLC

\* ------------------------------------------------------------------ bounds
\* longest text of the editor
MaxLen == 3
\* largest offset passed to autocompleteShow
MaxOffset == 2
\* number of accepted completions recorded in the history
MaxAccepts == 1
\* number of accepted completions when only open requests and accepts happen
MaxHistory == 3
\* longest line of the text control
MaxLine == 3
\* number of key presses on the text control
MaxKeys == 4
\* number of unanswered requests
MaxPending == 2
MaxText == 5
MaxInsert == 2
MaxShared == 2

\* ------------------------------------------------------------ text helpers
None == -1

Min(a, b) == IF a < b THEN a ELSE b
Max(a, b) == IF a > b THEN a ELSE b

\* the alphanumeric characters of the modelled texts
AlnumChars == {"a", "A"}
\* the characters the modelled keyboard types
Chars == {"a", "_"}

\* str.isalnum() of the text of a key event (one character or empty)
isalnum(t) == t \in AlnumChars

\* str.lower() on one character, and on a text
LowerChar(c) == IF c = "A" THEN "a" ELSE c
Lower(w) == [i \in 1..Len(w) |-> LowerChar(w[i])]

\* str.startswith (case-sensitive)
startswith(w, p) == Len(p) <= Len(w) /\ SubSeq(w, 1, Len(p)) = p
\* the completer's match: prefix match with Qt.CaseInsensitive
startswithCI(w, p) == startswith(Lower(w), Lower(p))

\* text[a:b] of a Python string / selectedText of a cursor over [a, b)
Slice(t, a, b) == SubSeq(t, a + 1, b)
\* the text with [a, b) replaced by s (QTextCursor.insertText on a selection)
Replace(t, a, b, s) == Slice(t, 0, a) \o s \o Slice(t, b, Len(t))

\* keyword.kwlist: lower-case words, here one word over the modelled characters
KwList == << <<"a", "a">> >>

\* the lists a caller passes as names
NameLists == { << >>, << <<"A", "_">>, <<"a">> >> }

\* ------------------------------------------------- AutoCompletion: state
VARIABLES
  buf,                \* text of the editor's document
  cur,                \* position of the editor's text cursor
  autocompleteStart,  \* __autocompleteStart: position of the anchor, or None
  completerModel,     \* string list of __completerModel
  completerNames,     \* __completerNames
  recentCompletions,  \* __recentCompletions
  popupVisible,       \* whether the completer's popup is shown
  accepted,           \* history: the texts accepted so far, in order
  last,               \* the operation handled last and what it did
  other               \* a second editor: its fields, the list that its
                      \* __recentCompletions refers to (recent) and whether
                      \* that list is the first editor's list object (shared)

acVars == <<buf, cur, autocompleteStart, completerModel, completerNames,
            recentCompletions, popupVisible, accepted, last, other>>

\* ------------------------------------------------- BaseTextCtrl: state
VARIABLES
  line,           \* the current line up to the cursor
  delayLine,      \* _delayTimer._line
  timerActive,    \* whether the single-shot _delayTimer is running
  autoCompName,   \* _autoComp_name
  listActive,     \* whether Scintilla's completion list is shown (SCI_AUTOCACTIVE)
  lexerPython,    \* whether the active lexer is the Python lexer
  requests,       \* requests posted to the shell and not yet answered
  keyCount,       \* history: the number of key presses so far
  timerKeys,      \* history: the number of key presses when the timer was last started
  btcLast         \* the handler run last and what it did

btcVars == <<line, delayLine, timerActive, autoCompName, listActive, lexerPython,
             requests, keyCount, timerKeys, btcLast>>

\* ------------------------------------------- parseLine_autocomplete: state
VARIABLES
  ptext,          \* the text passed to parseLine_autocomplete
  presult         \* whether it returned, and the tuple (base, name) it returned

parseVars == <<ptext, presult>>

\* ------------------------------------- ShellStack and DebugControl: state
VARIABLES
  tabs,           \* the shells of the tab widget in tab order: for each one
                  \* its _debugState and whether it has a _disconnectPhase
  currentIndex,   \* the tab widget's current index, -1 without tabs
  dbcMenu,        \* the menu of the DebugControl
  dbcText         \* the text of the DebugControl

shellVars == <<tabs, currentIndex, dbcMenu, dbcText>>

\* what an operation does besides changing the fields: whether the key went
\* to the underlying editor, whether popup().show() and __positionAutocompleter
\* were called, whether the operation raised, the prefix last passed to
\* setCompletionPrefix and the row last passed to popup().setCurrentIndex
\* after it (0: none, the new prefix left the popup without a current row)
NoEffects == [fwd |-> FALSE, shown |-> FALSE, positioned |-> FALSE, raised |-> FALSE,
              prefixSet |-> FALSE, prefix |-> << >>, row |-> 0]

\* the object's fields as one value, threaded through the statements of a method
Self == [buf |-> buf, cur |-> cur, autocompleteStart |-> autocompleteStart,
         completerModel |-> completerModel, completerNames |-> completerNames,
         recentCompletions |-> recentCompletions,
         popupVisible |-> popupVisible, eff |-> NoEffects]

\* ------------------------------------------- AutoCompletion: the methods
autocompleteActive(s) == s.autocompleteStart # None

\* mutant: cancelling forgets the recent completions
autocompleteCancel_forgets(s) ==
  [s EXCEPT !.popupVisible = FALSE, !.autocompleteStart = None,
            !.recentCompletions = << >>]

autocompleteCancel(s) ==
  [s EXCEPT !.popupVisible = FALSE, !.autocompleteStart = None]

positionAutocompleter(s) == [s EXCEPT !.eff.positioned = TRUE]

\* rows of the completion model: the rows of the string list that start with
\* the prefix, case-insensitively, in the order of the string list
completionRows(model, prefix) ==
  SelectSeq([i \in 1..Len(model) |-> i], LAMBDA i : startswithCI(model[i], prefix))

\* QCompleter.setCompletionPrefix: the completion model is filtered again,
\* which leaves the popup without a current row
setCompletionPrefix(s, prefix) ==
  [s EXCEPT !.eff.prefixSet = TRUE, !.eff.prefix = prefix, !.eff.row = 0]

\* QStringListModel.setStringList
setStringList(s, names) == [s EXCEPT !.completerModel = names]

\* list.index of the recent completions, -1 when absent
completionIndex(recent, data) ==
  IF \E i \in 1..Len(recent) : recent[i] = data
  THEN (CHOOSE i \in 1..Len(recent) :
          recent[i] = data /\ \A j \in 1..(i - 1) : recent[j] # data) - 1
  ELSE -1

RemoveAt(q, i) == SubSeq(q, 1, i - 1) \o SubSeq(q, i + 1, Len(q))

\* list.sort(key, reverse = True): descending and stable
RECURSIVE SortDescKeys(_, _)
SortDescKeys(items, keys) ==
  IF items = << >> THEN << >>
  ELSE LET i == CHOOSE k \in 1..Len(keys) :
                  /\ \A j \in 1..Len(keys) : keys[j] <= keys[k]
                  /\ \A j \in 1..(k - 1) : keys[j] < keys[k]
       IN <<items[i]>> \o SortDescKeys(RemoveAt(items, i), RemoveAt(keys, i))

\* mutant: the candidates are sorted by recency only
bestMatchRow_recentOnly(model, recent, prefix) ==
  LET rows == completionRows(model, prefix)
      completions == [r \in 1..Len(rows) |-> [row |-> r, data |-> model[rows[r]]]]
      byRecent == SortDescKeys(completions,
                    [i \in 1..Len(completions) |->
                       completionIndex(recent, completions[i].data)])
  IN byRecent[1].row

\* mutant: of the candidates that tie on both keys the last one is chosen
bestMatchRow_lastOfTies(model, recent, prefix) ==
  LET rows == completionRows(model, prefix)
      case(r) == IF startswith(model[rows[r]], prefix) THEN 1 ELSE 0
      index(r) == completionIndex(recent, model[rows[r]])
      better(q, r) == case(q) > case(r) \/ (case(q) = case(r) /\ index(q) > index(r))
  IN CHOOSE r \in 1..Len(rows) :
       /\ \A q \in 1..Len(rows) : ~better(q, r)
       /\ \A q \in (r + 1)..Len(rows) : better(r, q)

\* mutant: the candidates are sorted by exact case only
bestMatchRow_caseOnly(model, recent, prefix) ==
  LET rows == completionRows(model, prefix)
      completions == [r \in 1..Len(rows) |-> [row |-> r, data |-> model[rows[r]]]]
      byCase == SortDescKeys(completions,
                    [i \in 1..Len(completions) |->
                       IF startswith(completions[i].data, prefix) THEN 1 ELSE 0])
  IN byCase[1].row

\* the row chosen among the rows of the completion model
bestMatchRow(model, recent, prefix) ==
  LET rows == completionRows(model, prefix)
      completions == [r \in 1..Len(rows) |-> [row |-> r, data |-> model[rows[r]]]]
      byRecent == SortDescKeys(completions,
                    [i \in 1..Len(completions) |->
                       completionIndex(recent, completions[i].data)])
      byCase == SortDescKeys(byRecent,
                    [i \in 1..Len(byRecent) |->
                       IF startswith(byRecent[i].data, prefix) THEN 1 ELSE 0])
  IN byCase[1].row

\* mutant: the popup is not hidden when no session is active
updateAutocompleterPrefix_noHide(s) ==
  IF ~autocompleteActive(s) THEN s
  ELSE LET prefix == Slice(s.buf, Min(s.autocompleteStart, s.cur),
                                  Max(s.autocompleteStart, s.cur))
           s1 == setCompletionPrefix(s, prefix)
       IN IF Len(completionRows(s1.completerModel, prefix)) > 0
          THEN [s1 EXCEPT !.eff.row =
                  bestMatchRow(s1.completerModel, s1.recentCompletions, prefix)]
          ELSE autocompleteCancel(s1)

\* mutant: the session is not cancelled when nothing matches
updateAutocompleterPrefix_noCancel(s) ==
  IF ~autocompleteActive(s) THEN [s EXCEPT !.popupVisible = FALSE]
  ELSE LET prefix == Slice(s.buf, Min(s.autocompleteStart, s.cur),
                                  Max(s.autocompleteStart, s.cur))
           s1 == setCompletionPrefix(s, prefix)
       IN IF Len(completionRows(s1.completerModel, prefix)) > 0
          THEN [s1 EXCEPT !.eff.row =
                  bestMatchRow(s1.completerModel, s1.recentCompletions, prefix)]
          ELSE s1

updateAutocompleterPrefix(s) ==
  IF ~autocompleteActive(s) THEN [s EXCEPT !.popupVisible = FALSE]
  ELSE LET prefix == Slice(s.buf, Min(s.autocompleteStart, s.cur),
                                  Max(s.autocompleteStart, s.cur))
           s1 == setCompletionPrefix(s, prefix)
       IN IF Len(completionRows(s1.completerModel, prefix)) > 0
          THEN [s1 EXCEPT !.eff.row =
                  bestMatchRow(s1.completerModel, s1.recentCompletions, prefix)]
          ELSE autocompleteCancel(s1)

\* names is passed with hasNames = TRUE; names = None is hasNames = FALSE
autocompleteShow(s, offset, hasNames, names) ==
  LET start == Max(0, s.cur - offset)
      s1 == IF ~autocompleteActive(s) \/ start # s.autocompleteStart
            THEN LET a == [s EXCEPT !.autocompleteStart = start]
                     b == updateAutocompleterPrefix(positionAutocompleter(a))
                 IN [b EXCEPT !.popupVisible = TRUE, !.eff.shown = TRUE]
            ELSE s
      s2 == IF hasNames /\ names # s1.completerNames
            THEN [setStringList(s1, names) EXCEPT !.completerNames = names]
            ELSE s1
  IN updateAutocompleterPrefix(s2)

\* mutant: the text is inserted at the cursor, the prefix is not replaced
onAutoComplete_insertOnly(s, text) ==
  IF ~autocompleteActive(s) THEN [s EXCEPT !.eff.raised = TRUE]
  ELSE LET s1 == [s EXCEPT !.buf = Replace(s.buf, s.cur, s.cur, text),
                           !.cur = s.cur + Len(text)]
           s2 == autocompleteCancel(s1)
           recent == s2.recentCompletions
           kept == IF completionIndex(recent, text) >= 0
                   THEN RemoveAt(recent, completionIndex(recent, text) + 1)
                   ELSE recent
       IN [s2 EXCEPT !.recentCompletions = Append(kept, text)]

\* mutant: the text is appended without removing its earlier entry
onAutoComplete_appendOnly(s, text) ==
  IF ~autocompleteActive(s) THEN [s EXCEPT !.eff.raised = TRUE]
  ELSE LET lo == Min(s.autocompleteStart, s.cur)
           hi == Max(s.autocompleteStart, s.cur)
           s1 == [s EXCEPT !.buf = Replace(s.buf, lo, hi, text),
                           !.cur = lo + Len(text)]
           s2 == autocompleteCancel(s1)
       IN [s2 EXCEPT !.recentCompletions = Append(s2.recentCompletions, text)]

onAutoComplete(s, text) ==
  IF ~autocompleteActive(s) THEN [s EXCEPT !.eff.raised = TRUE]
  ELSE LET lo == Min(s.autocompleteStart, s.cur)
           hi == Max(s.autocompleteStart, s.cur)
           s1 == [s EXCEPT !.buf = Replace(s.buf, lo, hi, text),
                           !.cur = lo + Len(text)]
           s2 == autocompleteCancel(s1)
           recent == s2.recentCompletions
           kept == IF completionIndex(recent, text) >= 0
                   THEN RemoveAt(recent, completionIndex(recent, text) + 1)
                   ELSE recent
       IN [s2 EXCEPT !.recentCompletions = Append(kept, text)]

\* ---------------------------------------------- AutoCompletion: key events
Key_Escape == "Key_Escape"
Key_Tab == "Key_Tab"
Key_Backspace == "Key_Backspace"
Key_Shift == "Key_Shift"
Key_Left == "Key_Left"
Key_Right == "Key_Right"
Keys == Chars \cup {Key_Escape, Key_Tab, Key_Backspace, Key_Shift, Key_Left, Key_Right}

\* event.text(): the character of a character key, a control character for
\* Escape, Tab and Backspace, empty for Shift and the arrow keys
eventText(key) ==
  CASE key \in Chars -> key
    [] key = Key_Escape -> "\\x1b"
    [] key = Key_Tab -> "\t"
    [] key = Key_Backspace -> "\\x08"
    [] OTHER -> ""

\* a cursor of the document follows an insertion of n characters at position at
\* (a cursor with keepPositionOnInsert stays when the insertion is at it)
\* mutant: a cursor does not follow an insertion before it
afterInsert_noShift(pos, at, n) == pos

afterInsert(pos, at, n) == IF at < pos THEN pos + n ELSE pos
\* ... and the removal of [a, b)
afterRemove(pos, a, b) == IF pos >= b THEN pos - (b - a) ELSE IF pos > a THEN a ELSE pos

\* the key event in the underlying editor (super().keyPressEvent)
superKeyPressEvent(s, key) ==
  LET t == [s EXCEPT !.eff.fwd = TRUE]
      start == s.autocompleteStart
  IN CASE key \in Chars ->
            [t EXCEPT !.buf = Replace(s.buf, s.cur, s.cur, <<key>>),
                      !.cur = s.cur + 1,
                      !.autocompleteStart =
                         IF start = None THEN None ELSE afterInsert(start, s.cur, 1)]
       [] key = Key_Backspace /\ s.cur > 0 ->
            [t EXCEPT !.buf = Replace(s.buf, s.cur - 1, s.cur, << >>),
                      !.cur = s.cur - 1,
                      !.autocompleteStart =
                         IF start = None THEN None
                         ELSE afterRemove(start, s.cur - 1, s.cur)]
       [] key = Key_Left -> [t EXCEPT !.cur = Max(0, s.cur - 1)]
       [] key = Key_Right -> [t EXCEPT !.cur = Min(Len(s.buf), s.cur + 1)]
       [] OTHER -> t

\* mutant: the prefix is not updated after the key was applied
keyPressEventApply_noUpdate(s, key) ==
  LET s1 == IF /\ autocompleteActive(s)
               /\ ~isalnum(eventText(key))
               /\ eventText(key) # "_"
               /\ key # Key_Shift
               /\ ~(key = Key_Backspace /\ s.cur > s.autocompleteStart)
            THEN autocompleteCancel(s)
            ELSE s
  IN superKeyPressEvent(s1, key)

\* mutant: keys without text (the cursor keys) do not close the session
keyPressEventApply_cursorKeysKeep(s, key) ==
  LET s1 == IF /\ autocompleteActive(s)
               /\ ~isalnum(eventText(key))
               /\ eventText(key) # "_"
               /\ eventText(key) # ""
               /\ ~(key = Key_Backspace /\ s.cur > s.autocompleteStart)
            THEN autocompleteCancel(s)
            ELSE s
      s2 == superKeyPressEvent(s1, key)
  IN IF autocompleteActive(s2)
     THEN updateAutocompleterPrefix(positionAutocompleter(s2))
     ELSE s2

\* mutant: Backspace with the cursor at the anchor does not close the session
keyPressEventApply_backspaceAtAnchor(s, key) ==
  LET s1 == IF /\ autocompleteActive(s)
               /\ ~isalnum(eventText(key))
               /\ eventText(key) # "_"
               /\ key # Key_Shift
               /\ ~(key = Key_Backspace /\ s.cur >= s.autocompleteStart)
            THEN autocompleteCancel(s)
            ELSE s
      s2 == superKeyPressEvent(s1, key)
  IN IF autocompleteActive(s2)
     THEN updateAutocompleterPrefix(positionAutocompleter(s2))
     ELSE s2

\* keyPressEvent from "Allowed keys that do not close the autocompleteList" on
keyPressEventApply(s, key) ==
  LET s1 == IF /\ autocompleteActive(s)
               /\ ~isalnum(eventText(key))
               /\ eventText(key) # "_"
               /\ key # Key_Shift
               /\ ~(key = Key_Backspace /\ s.cur > s.autocompleteStart)
            THEN autocompleteCancel(s)
            ELSE s
      s2 == superKeyPressEvent(s1, key)
  IN IF autocompleteActive(s2)
     THEN updateAutocompleterPrefix(positionAutocompleter(s2))
     ELSE s2

\* mutant: Escape cancels the session and is then handled like any other key
keyPressEvent_escapeForwarded(s, key, noModifier) ==
  IF key = Key_Escape /\ noModifier /\ autocompleteActive(s)
  THEN keyPressEventApply(autocompleteCancel(s), key)
  ELSE IF key = Key_Tab /\ noModifier /\ autocompleteActive(s)
  THEN s
  ELSE keyPressEventApply(s, key)

\* noModifier: event.modifiers() == Qt.NoModifier
keyPressEvent(s, key, noModifier) ==
  IF key = Key_Escape /\ noModifier /\ autocompleteActive(s)
  THEN autocompleteCancel(s)
  ELSE IF key = Key_Tab /\ noModifier /\ autocompleteActive(s)
  THEN s
  ELSE keyPressEventApply(s, key)

\* ------------------------------------------------ AutoCompletion: actions
\* mutant: the first editor changes a list of its own
Commit_ownList(s, op) ==
  /\ buf' = s.buf
  /\ cur' = s.cur
  /\ autocompleteStart' = s.autocompleteStart
  /\ completerModel' = s.completerModel
  /\ completerNames' = s.completerNames
  /\ recentCompletions' = s.recentCompletions
  /\ popupVisible' = s.popupVisible
  /\ last' = [op |-> op, eff |-> s.eff]
  /\ UNCHANGED <<other, btcVars, parseVars, shellVars>>

\* the fields after a method has run, and the record of that run
Commit(s, op) ==
  /\ buf' = s.buf
  /\ cur' = s.cur
  /\ autocompleteStart' = s.autocompleteStart
  /\ completerModel' = s.completerModel
  /\ completerNames' = s.completerNames
  /\ recentCompletions' = s.recentCompletions
  /\ popupVisible' = s.popupVisible
  /\ last' = [op |-> op, eff |-> s.eff]
  \* the list object is mutated in place: an editor that refers to the same
  \* object sees the change
  /\ other' = IF other.shared THEN [other EXCEPT !.recent = s.recentCompletions]
                               ELSE other
  /\ UNCHANGED <<btcVars, parseVars, shellVars>>

AcInit ==
  /\ buf = << >>
  /\ cur = 0
  /\ autocompleteStart = None
  /\ completerModel = KwList
  /\ completerNames = << >>
  /\ recentCompletions = << >>
  /\ popupVisible = FALSE
  /\ accepted = << >>
  /\ last = [op |-> "init", eff |-> NoEffects]
  /\ other = [buf |-> << >>, cur |-> 0, autocompleteStart |-> None,
              completerModel |-> KwList, completerNames |-> << >>,
              popupVisible |-> FALSE, recent |-> << >>, shared |-> FALSE,
              eff |-> NoEffects]

AutocompleteShow(offset, names) ==
  /\ Commit(autocompleteShow(Self, offset, TRUE, names), "autocompleteShow")
  /\ UNCHANGED accepted

AutocompleteShowNone(offset) ==
  /\ Commit(autocompleteShow(Self, offset, FALSE, << >>), "autocompleteShow")
  /\ UNCHANGED accepted

AutocompleteCancel ==
  /\ Commit(autocompleteCancel(Self), "autocompleteCancel")
  /\ UNCHANGED accepted

\* the completer's activated signal, with a string of the completer's list
OnAutoComplete(text, maxAccepts) ==
  /\ Len(accepted) < maxAccepts
  /\ Len(onAutoComplete(Self, text).buf) <= MaxLen
  /\ Commit(onAutoComplete(Self, text), "onAutoComplete")
  /\ accepted' = IF autocompleteStart # None THEN Append(accepted, text) ELSE accepted

\* a key press; a modifier is modelled for Escape, and Tab for an active session
KeyPressEvent(key, noModifier) ==
  /\ key \in Chars => Len(buf) < MaxLen
  /\ ~noModifier => key = Key_Escape
  /\ key = Key_Tab => autocompleteStart # None
  /\ Commit(keyPressEvent(Self, key, noModifier), "keyPressEvent")
  /\ UNCHANGED accepted

\* the text cursor placed by the underlying editor (mouse, setTextCursor):
\* AutoCompletion has no handler for it
SetTextCursor(p) ==
  /\ p # cur
  /\ Commit([Self EXCEPT !.cur = p], "setTextCursor")
  /\ UNCHANGED accepted

\* an edit of the document that is not a key press (another cursor of the
\* document inserts text at position at): the text cursor and the anchor,
\* both cursors of the document, follow it; AutoCompletion has no handler
insertText(s, at, text) ==
  [s EXCEPT !.buf = Replace(s.buf, at, at, text),
            !.cur = IF at <= s.cur THEN s.cur + Len(text) ELSE s.cur,
            !.autocompleteStart =
               IF s.autocompleteStart = None THEN None
               ELSE afterInsert(s.autocompleteStart, at, Len(text))]

\* ... and removes the text in [a, b)
removeText(s, a, b) ==
  [s EXCEPT !.buf = Replace(s.buf, a, b, << >>),
            !.cur = afterRemove(s.cur, a, b),
            !.autocompleteStart =
               IF s.autocompleteStart = None THEN None
               ELSE afterRemove(s.autocompleteStart, a, b)]

\* the fields after an edit of the document, and the record of the edit
DocCommit(s, edit) ==
  /\ buf' = s.buf
  /\ cur' = s.cur
  /\ autocompleteStart' = s.autocompleteStart
  /\ last' = edit
  /\ UNCHANGED <<completerModel, completerNames, recentCompletions, popupVisible,
                 accepted, other, btcVars, parseVars,
                 shellVars>>

InsertTexts == UNION {[1..n -> Chars] : n \in 1..MaxInsert}

\* the record keeps where the text went and where the anchor was
DocInsert(at, text) ==
  /\ at <= Len(buf)
  /\ Len(buf) + Len(text) <= MaxLen
  /\ DocCommit(insertText(Self, at, text),
               [op |-> "insertText", eff |-> NoEffects, at |-> at, n |-> Len(text),
                start |-> autocompleteStart])

\* the record keeps whether the edit removes the text that the edit before it
\* inserted strictly before the anchor of an active session
DocRemove(a, b) ==
  /\ a < b /\ b <= Len(buf)
  /\ DocCommit(removeText(Self, a, b),
               [op |-> "removeText", eff |-> NoEffects,
                undoes |-> /\ last.op = "insertText"
                           /\ last.start # None
                           /\ last.at < last.start
                           /\ a = last.at
                           /\ b = last.at + last.n,
                start |-> IF last.op = "insertText" THEN last.start ELSE None])

\* open requests and edits of the document
EditNext ==
  \/ \E offset \in 0..MaxOffset, names \in NameLists : AutocompleteShow(offset, names)
  \/ \E offset \in 0..MaxOffset : AutocompleteShowNone(offset)
  \/ \E at \in 0..MaxLen, text \in InsertTexts : DocInsert(at, text)
  \/ \E a \in 0..MaxLen, b \in 0..MaxLen : DocRemove(a, b)

\* the second editor's fields as one value
OtherSelf == [buf |-> other.buf, cur |-> other.cur,
              autocompleteStart |-> other.autocompleteStart,
              completerModel |-> other.completerModel,
              completerNames |-> other.completerNames,
              recentCompletions |-> other.recent,
              popupVisible |-> other.popupVisible, eff |-> NoEffects]

\* the second editor's fields after one of its methods has run; its list is
\* mutated in place, so the first editor sees the change when the list object
\* is the same
OtherCommit(s) ==
  /\ other' = [buf |-> s.buf, cur |-> s.cur, autocompleteStart |-> s.autocompleteStart,
               completerModel |-> s.completerModel, completerNames |-> s.completerNames,
               popupVisible |-> s.popupVisible, recent |-> s.recentCompletions,
               shared |-> other.shared, eff |-> s.eff]
  /\ recentCompletions' = IF other.shared THEN s.recentCompletions ELSE recentCompletions
  /\ UNCHANGED <<buf, cur, autocompleteStart, completerModel, completerNames,
                 popupVisible, last, btcVars, parseVars,
                 shellVars>>

\* other.setRecentCompletionsList(self.recentCompletionsList())
SetRecentCompletionsList ==
  /\ ~other.shared
  /\ other' = [other EXCEPT !.recent = recentCompletions, !.shared = TRUE]
  /\ UNCHANGED <<buf, cur, autocompleteStart, completerModel, completerNames,
                 recentCompletions, popupVisible, accepted, last, btcVars, parseVars,
                 shellVars>>

OtherShow(offset, names) ==
  /\ OtherCommit(autocompleteShow(OtherSelf, offset, TRUE, names))
  /\ UNCHANGED accepted

\* the history keeps the accepts recorded in the first editor's list object
OtherAccept(text) ==
  /\ other.autocompleteStart # None
  /\ Len(accepted) < MaxShared
  /\ Len(onAutoComplete(OtherSelf, text).buf) <= MaxLen
  /\ OtherCommit(onAutoComplete(OtherSelf, text))
  /\ accepted' = IF other.shared THEN Append(accepted, text) ELSE accepted

\* two editors: open requests and accepts in both, and the sharing of the list
SharedNext ==
  \/ SetRecentCompletionsList
  \/ \E names \in NameLists : AutocompleteShow(0, names)
  \/ \E i \in 1..Len(completerModel) : OnAutoComplete(completerModel[i], MaxShared)
  \/ \E names \in NameLists : OtherShow(0, names)
  \/ \E i \in 1..Len(other.completerModel) : OtherAccept(other.completerModel[i])

\* open requests, edits of the document, cursor moves and the Backspace key
BackspaceNext ==
  \/ \E offset \in 0..MaxOffset, names \in NameLists : AutocompleteShow(offset, names)
  \/ \E at \in 0..MaxLen, text \in InsertTexts : DocInsert(at, text)
  \/ \E p \in 0..Len(buf) : SetTextCursor(p)
  \/ KeyPressEvent(Key_Backspace, TRUE)

AcNext ==
  \/ \E offset \in 0..MaxOffset, names \in NameLists : AutocompleteShow(offset, names)
  \/ \E offset \in 0..MaxOffset : AutocompleteShowNone(offset)
  \/ AutocompleteCancel
  \/ \E i \in 1..Len(completerModel) : OnAutoComplete(completerModel[i], MaxAccepts)
  \/ \E key \in Keys, noModifier \in BOOLEAN : KeyPressEvent(key, noModifier)
  \/ \E p \in 0..Len(buf) : SetTextCursor(p)

\* open requests and accepts only, with a longer history of accepts
AcceptNext ==
  \/ \E offset \in 0..MaxOffset, names \in NameLists : AutocompleteShow(offset, names)
  \/ \E i \in 1..Len(completerModel) : OnAutoComplete(completerModel[i], MaxHistory)


\* ---------------------------------------------- BaseTextCtrl: the parser
\* valid chars to make a name, restricted to the modelled characters
namechars == {"a", "b", "A", "B", "_", "0"}

RECURSIVE Count(_, _)
\* str.count of one character
Count(text, c) ==
  IF text = << >> THEN 0
  ELSE (IF Head(text) = c THEN 1 ELSE 0) + Count(Tail(text), c)

\* str.rfind of one character: the last 0-based position, -1 when absent
rfind(text, c) ==
  IF \E i \in 1..Len(text) : text[i] = c
  THEN (CHOOSE i \in 1..Len(text) :
          text[i] = c /\ \A j \in (i + 1)..Len(text) : text[j] # c) - 1
  ELSE -1

\* mutant: the base runs to the end of the text
parseLineResult_baseToEnd(text, i, i_base) ==
  IF i_base = 0
  THEN [base |-> << >>, name |-> Slice(text, Max(0, i + 1), Len(text))]
  ELSE [base |-> Slice(text, i + 1, Len(text)), name |-> Slice(text, i_base + 1, Len(text))]

\* mutant: the name starts at the character that ended the loop
parseLineResult_offByOne(text, i, i_base) ==
  IF i_base = 0
  THEN [base |-> << >>, name |-> Slice(text, Max(0, i), Len(text))]
  ELSE [base |-> Slice(text, i + 1, i_base), name |-> Slice(text, i_base + 1, Len(text))]

\* the statements after the loop of parseLine_autocomplete; i is the loop
\* variable as the loop left it
parseLineResult(text, i, i_base) ==
  IF i_base = 0
  THEN [base |-> << >>, name |-> Slice(text, Max(0, i + 1), Len(text))]
  ELSE [base |-> Slice(text, i + 1, i_base), name |-> Slice(text, i_base + 1, Len(text))]

RECURSIVE parseLineScan(_, _, _)
\* the loop of parseLine_autocomplete, from position i down to 0
parseLineScan(text, i, i_base) ==
  IF i < 0 THEN parseLineResult(text, IF text = << >> THEN -2 ELSE -1, i_base)
  ELSE LET c == text[i + 1]
       IN IF c = "."
          THEN parseLineScan(text, i - 1, IF i_base = 0 THEN i ELSE i_base)
          ELSE IF c \in {"'", "\""}
          THEN IF i_base = i + 1
               THEN [base |-> <<"'", "'">>, name |-> Slice(text, i_base + 1, Len(text))]
               ELSE [base |-> << >>, name |-> << >>]
          ELSE IF c = "]"
          THEN IF i_base = i + 1 /\ i > 0 /\ text[i] = "["
               THEN [base |-> <<"[", "]">>, name |-> Slice(text, i_base + 1, Len(text))]
               ELSE [base |-> << >>, name |-> << >>]
          ELSE IF c \notin namechars
          THEN parseLineResult(text, i, i_base)
          ELSE parseLineScan(text, i - 1, i_base)

parseLine_autocomplete(text) ==
  LET i == rfind(text, "#")
  IN IF /\ i >= 0
        /\ Count(Slice(text, 0, i), "\"") % 2 = 0
        /\ Count(Slice(text, 0, i), "'") % 2 = 0
     THEN [base |-> << >>, name |-> << >>]
     ELSE parseLineScan(text, Len(text) - 1, 0)

\* the characters of the texts parsed: a name character, the dot, the comment
\* marker, the two quotes, the brackets and a space
ParseChars == {"a", ".", "#", "\"", "'", "[", "]", " "}
Texts == UNION {[1..n -> ParseChars] : n \in 0..MaxText}

NotParsed == [done |-> FALSE, base |-> << >>, name |-> << >>]

\* no call of parseLine_autocomplete under way
ParseIdle == ptext = << >> /\ presult = NotParsed

\* a line of code up to the cursor, about to be parsed
ParseCalled == ptext \in Texts /\ presult = NotParsed

\* the call parseLine_autocomplete(ptext) returns
ParseLine ==
  /\ ~presult.done
  /\ presult' = [done |-> TRUE, base |-> parseLine_autocomplete(ptext).base,
                                name |-> parseLine_autocomplete(ptext).name]
  /\ UNCHANGED <<ptext, acVars, btcVars, shellVars>>

\* --------------------------------------------- BaseTextCtrl: text helpers
RECURSIVE split(_, _)
\* str.split(sep) for a separator of one character
split(text, sep) ==
  IF \A i \in 1..Len(text) : text[i] # sep THEN <<text>>
  ELSE LET i == CHOOSE k \in 1..Len(text) :
                  text[k] = sep /\ \A j \in 1..(k - 1) : text[j] # sep
       IN <<SubSeq(text, 1, i - 1)>> \o split(SubSeq(text, i + 1, Len(text)), sep)

\* ord() of the modelled characters, after str.upper
ordUpper(c) ==
  CASE c \in {"a", "A"} -> 65
    [] c \in {"b", "B"} -> 66
    [] c = "_" -> 95
    [] c = "0" -> 48
    [] c = "." -> 46
    [] OTHER -> 32

RECURSIVE lessUpper(_, _)
\* u.upper() < v.upper()
lessUpper(u, v) ==
  IF v = << >> THEN FALSE
  ELSE IF u = << >> THEN TRUE
  ELSE IF ordUpper(Head(u)) # ordUpper(Head(v)) THEN ordUpper(Head(u)) < ordUpper(Head(v))
  ELSE lessUpper(Tail(u), Tail(v))

RECURSIVE sortUpper(_)
\* list.sort(key=str.upper): ascending and stable
sortUpper(list) ==
  IF list = << >> THEN << >>
  ELSE LET i == CHOOSE k \in 1..Len(list) :
                  /\ \A j \in 1..Len(list) : ~lessUpper(list[j], list[k])
                  /\ \A j \in 1..(k - 1) : lessUpper(list[k], list[j])
       IN <<list[i]>> \o sortUpper(RemoveAt(list, i))

\* ord(event.text()) of a key of the text control
ord(key) ==
  CASE key = "a" -> 97
    [] key = "." -> 46
    [] key = " " -> 32
    [] key = Key_Backspace -> 8
    [] OTHER -> 0

This == [line |-> line, delayLine |-> delayLine, timerActive |-> timerActive,
         autoCompName |-> autoCompName, listActive |-> listActive,
         lexerPython |-> lexerPython, requests |-> requests, outcome |-> ""]

\* the builtins of the current shell
builtins == << <<"a", "b">> >>

\* ------------------------------------------- BaseTextCtrl: the methods
autoCompCancel(b) == [b EXCEPT !.listActive = FALSE]

autoCompShow(b, lenentered, names) == [b EXCEPT !.listActive = TRUE]

autoCompActive(b) == b.listActive

isValidPython(b) == b.lexerPython

autoComplete_do(b) ==
  IF ~isValidPython(b) THEN autoCompCancel(b)
  ELSE LET text == b.line
       IN IF text = << >> \/ ~(text[Len(text)] \in namechars \/ text[Len(text)] = ".")
          THEN autoCompCancel(b)
          ELSE [b EXCEPT !.delayLine = text, !.timerActive = TRUE]

\* hasShell: iep.shells.getCurrentShell() is not None; keys: the number of key
\* presses so far, noted with the request
autoComplete_do_now(b, hasShell, keys) ==
  IF b.delayLine = << >> THEN [b EXCEPT !.outcome = "no line"]
  ELSE LET parsed == parseLine_autocomplete(b.delayLine)
           baseObject == parsed.base
           name == Lower(parsed.name)
           b1 == [b EXCEPT !.autoCompName = baseObject \o <<".">> \o name]
       IN IF name # << >> \/ baseObject # << >>
          THEN IF hasShell
               THEN [b1 EXCEPT !.requests = Append(b.requests,
                                   [base |-> baseObject, keys |-> keys]),
                               !.outcome = "posted"]
               ELSE [b1 EXCEPT !.outcome = "raised"]
          ELSE [b1 EXCEPT !.outcome = "no request"]

\* editor1: iep.editors.getCurrentEditor() is self; editor2: the current
\* shell is "self", "other" or "None"
autoComplete_process(b, response, editor1, editor2) ==
  IF b.autoCompName = << >>
  THEN [autoCompCancel(b) EXCEPT !.outcome = "discarded"]
  ELSE LET parts == split(b.autoCompName, ".")
       IN IF Len(parts) # 2 THEN [b EXCEPT !.outcome = "raised"]
          ELSE LET baseObject == parts[1]
                   name == parts[2]
                   list == split(response, ",")
               IN IF ~editor1 /\ editor2 # "self"
                  THEN [autoCompCancel(b) EXCEPT !.outcome = "not current"]
                  ELSE LET full == IF editor2 # "None" /\ baseObject = << >>
                                   THEN list \o builtins ELSE list
                           sorted == sortUpper(full)
                           found == SelectSeq(sorted, LAMBDA item : startswith(Lower(item), name))
                           thename == IF found = << >> THEN << >> ELSE found[1]
                       IN IF thename = << >>
                          THEN [autoCompCancel(b) EXCEPT !.outcome = "hidden"]
                          ELSE IF ~autoCompActive(b)
                          THEN [autoCompShow(b, Len(name), sorted) EXCEPT !.outcome = "shown"]
                          ELSE [b EXCEPT !.outcome = "kept"]

\* the text control's keys: characters, Backspace and a cursor key
TextKeys == {"a", ".", " ", Key_Backspace, Key_Left}

\* the key in QsciScintillaBase.keyPressEvent: the line up to the cursor
\* after it; Scintilla may close its list (closes)
baseKeyPressEvent(b, key, closes) ==
  LET b1 == [b EXCEPT !.listActive = b.listActive /\ ~closes]
  IN IF key \in {"a", ".", " "} THEN [b1 EXCEPT !.line = Append(b.line, key)]
     ELSE IF b.line # << >> THEN [b1 EXCEPT !.line = SubSeq(b.line, 1, Len(b.line) - 1)]
     ELSE b1

\* mutant: the pending line is not cleared by a key press
textKeyPressEvent_keepsLine(b, key, closes) ==
  LET b1 == [b EXCEPT !.autoCompName = << >>]
      b2 == baseKeyPressEvent(b1, key, closes)
  IN IF key # Key_Left /\ (ord(key) >= 48 \/ ord(key) = 8)
     THEN autoComplete_do(b2)
     ELSE b2

textKeyPressEvent(b, key, closes) ==
  LET b1 == [b EXCEPT !.delayLine = << >>, !.autoCompName = << >>]
      b2 == baseKeyPressEvent(b1, key, closes)
  IN IF key # Key_Left /\ (ord(key) >= 48 \/ ord(key) = 8)
     THEN autoComplete_do(b2)
     ELSE b2

\* ------------------------------------------------ BaseTextCtrl: actions
BtcCommit(b, op, stale) ==
  /\ line' = b.line
  /\ delayLine' = b.delayLine
  /\ timerActive' = b.timerActive
  /\ autoCompName' = b.autoCompName
  /\ listActive' = b.listActive
  /\ lexerPython' = b.lexerPython
  /\ requests' = b.requests
  /\ btcLast' = [op |-> op, outcome |-> b.outcome, stale |-> stale]
  /\ UNCHANGED <<acVars, parseVars, shellVars>>

BtcInit ==
  /\ line = << >>
  /\ delayLine = << >>
  /\ timerActive = FALSE
  /\ autoCompName = << >>
  /\ listActive = FALSE
  /\ lexerPython = TRUE
  /\ requests = << >>
  /\ keyCount = 0
  /\ timerKeys = 0
  /\ btcLast = [op |-> "init", outcome |-> "", stale |-> FALSE]

TextKeyPress(key, closes) ==
  /\ keyCount < MaxKeys
  /\ key \in {"a", ".", " "} => Len(line) < MaxLine
  /\ closes => listActive
  /\ BtcCommit(textKeyPressEvent(This, key, closes), "keyPressEvent", FALSE)
  /\ keyCount' = keyCount + 1
  \* the key press cleared the pending line: a line is pending after it only
  \* when autoComplete_do stored it and started the timer
  /\ timerKeys' = IF delayLine' # << >> THEN keyCount' ELSE timerKeys

\* the delay timer expires
Timeout(hasShell) ==
  /\ timerActive
  /\ Len(requests) < MaxPending
  /\ BtcCommit(autoComplete_do_now([This EXCEPT !.timerActive = FALSE],
                                   hasShell, keyCount),
               "autoComplete_do_now", FALSE)
  /\ UNCHANGED <<keyCount, timerKeys>>

\* the shell answers request i
Response(i, response, editor1, editor2) ==
  /\ BtcCommit(autoComplete_process([This EXCEPT !.requests = RemoveAt(requests, i)],
                                    response, editor1, editor2),
               "autoComplete_process", requests[i].keys < keyCount)
  /\ UNCHANGED <<keyCount, timerKeys>>

\* the style of the control selects another lexer
SetLexer(python) ==
  /\ python # lexerPython
  /\ BtcCommit([This EXCEPT !.lexerPython = python], "setStyle", FALSE)
  /\ UNCHANGED <<keyCount, timerKeys>>

\* the answers of the shell
Responses == { << >>, <<"a">>, <<"b", ",", "a">> }

BtcNext ==
  \/ \E key \in TextKeys, closes \in BOOLEAN : TextKeyPress(key, closes)
  \/ \E hasShell \in BOOLEAN : Timeout(hasShell)
  \/ \E i \in 1..Len(requests), response \in Responses,
        editor1 \in BOOLEAN, editor2 \in {"self", "other", "None"} :
       Response(i, response, editor1, editor2)
  \/ \E python \in BOOLEAN : SetLexer(python)

\* ------------------------------------------------ ShellStack, DebugControl
\* the tabs the stack holds at most, and the frames of a trace at most
MaxShells == 2
MaxFrames == 2

\* the texts of the frames of a trace
FrameTexts == {"f", "g"}

\* _debugState of a shell: None, or a dict with the index of the current
\* frame (counted from 1) and the list of frames
NoDebugState == [some |-> FALSE, index |-> None, frames |-> << >>]

DebugStates ==
  {NoDebugState}
    \cup {[some |-> TRUE, index |-> 0, frames |-> << >>]}
    \cup UNION {{[some |-> TRUE, index |-> i, frames |-> f] :
                    i \in 1..n, f \in [1..n -> FrameTexts]} : n \in 1..MaxFrames}

\* a shell as addShell creates it
PythonShell == [debugState |-> NoDebugState, disconnecting |-> FALSE]

\* the DebugControl without a trace, and its text with one
NoMenu == [set |-> FALSE, frames |-> << >>, default |-> 0]
DebugText == [label |-> "Debug", i |-> 0, n |-> 0]
StackTraceText(i, n) == [label |-> "Stack Trace", i |-> i, n |-> n]

ShellSelf ==
  [tabs |-> tabs, currentIndex |-> currentIndex, menu |-> dbcMenu, text |-> dbcText]

\* the tab's widget; tab indices count from 0
widget(t, index) == t.tabs[index + 1]

\* a shell is named by its tab; None when there is no current shell
getCurrentShell(t) ==
  LET w == IF Len(t.tabs) # 0 THEN t.currentIndex ELSE None
  IN IF w = None THEN None
     ELSE IF widget(t, w).disconnecting THEN None
     ELSE w

\* the menu holds the frames after the entry that stops debugging; the text
\* changes only when the index names one of the frames
setTrace(t, info) ==
  LET index == IF info.some THEN info.index ELSE -1
      frames == IF info.some THEN info.frames ELSE << >>
      theAction == {k \in 1..Len(frames) : k = index}
  IN IF frames = << >>
       THEN [t EXCEPT !.menu = NoMenu, !.text = DebugText]
       ELSE [t EXCEPT
               !.menu = [set |-> TRUE, frames |-> frames,
                         default |-> IF theAction # {} THEN index ELSE 0],
               !.text = IF theAction # {}
                          THEN StackTraceText(index, Len(frames)) ELSE @]

onShellDebugStateChange(t, shell) ==
  IF shell = getCurrentShell(t)
    THEN IF widget(t, shell).debugState.some
           THEN setTrace(t, widget(t, shell).debugState)
           ELSE setTrace(t, NoDebugState)
    ELSE t

\* onShellStateChange sets the tab's text and the icons only
onCurrentChanged(t, index) ==
  IF index < 0 THEN t ELSE onShellDebugStateChange(t, index)

\* QTabWidget.setCurrentIndex: currentChanged is emitted when the index changes
setCurrentIndex(t, index) ==
  IF index = t.currentIndex THEN t
  ELSE onCurrentChanged([t EXCEPT !.currentIndex = index], index)

\* QTabWidget.addTab: the first tab becomes the current one
addTab(t, shell) ==
  LET t1 == [t EXCEPT !.tabs = Append(@, shell)]
  IN IF Len(t.tabs) = 0 THEN setCurrentIndex(t1, 0) ELSE t1

\* QTabWidget.removeTab: when the current tab goes, the one to its right
\* (or else the last one) becomes current; currentChanged(-1) when none is left
removeTab(t, index) ==
  LET rest == SubSeq(t.tabs, 1, index) \o SubSeq(t.tabs, index + 2, Len(t.tabs))
      t1 == [t EXCEPT !.tabs = rest]
      right == IF index >= Len(rest) THEN Len(rest) - 1 ELSE index
  IN IF index = t.currentIndex
       THEN onCurrentChanged([t1 EXCEPT !.currentIndex = right], right)
       ELSE IF index < t.currentIndex
              THEN onCurrentChanged([t1 EXCEPT !.currentIndex = @ - 1],
                                    t.currentIndex - 1)
              ELSE t1

addShell(t) ==
  setCurrentIndex(addTab(t, PythonShell), Len(t.tabs))

removeShell(t, shell) ==
  IF shell >= 0 THEN removeTab(t, shell) ELSE t

ShellCommit(t) ==
  /\ tabs' = t.tabs
  /\ currentIndex' = t.currentIndex
  /\ dbcMenu' = t.menu
  /\ dbcText' = t.text
  /\ UNCHANGED <<acVars, btcVars, parseVars>>

ShellInit ==
  /\ tabs = << >>
  /\ currentIndex = -1
  /\ dbcMenu = NoMenu
  /\ dbcText = DebugText

AddShell ==
  /\ Len(tabs) < MaxShells
  /\ ShellCommit(addShell(ShellSelf))

RemoveShell(shell) ==
  ShellCommit(removeShell(ShellSelf, shell))

\* the user selects another tab
SelectTab(index) ==
  /\ index # currentIndex
  /\ ShellCommit(setCurrentIndex(ShellSelf, index))

\* a shell receives a debug state and emits debugStateChanged
DebugStateChange(shell, info) ==
  ShellCommit(onShellDebugStateChange(
                [ShellSelf EXCEPT !.tabs[shell + 1].debugState = info], shell))

\* a shell starts to disconnect; it may emit debugStateChanged as it does
Disconnect(shell, emits) ==
  /\ ~tabs[shell + 1].disconnecting
  /\ LET t == [ShellSelf EXCEPT !.tabs[shell + 1].disconnecting = TRUE]
     IN ShellCommit(IF emits THEN onShellDebugStateChange(t, shell) ELSE t)

ShellNext ==
  \/ AddShell
  \/ \E shell \in 0..(Len(tabs) - 1) : RemoveShell(shell)
  \/ \E index \in 0..(Len(tabs) - 1) : SelectTab(index)
  \/ \E shell \in 0..(Len(tabs) - 1), info \in DebugStates :
       DebugStateChange(shell, info)
  \/ \E shell \in 0..(Len(tabs) - 1), emits \in BOOLEAN : Disconnect(shell, emits)

\* ---------------------------------------------------------- specifications
vars == <<acVars, btcVars, parseVars, shellVars>>
Init == AcInit /\ BtcInit /\ ParseIdle /\ ShellInit
\* the code editor's completion session
Next == AcNext
Spec == Init /\ [][Next]_vars
\* open requests and accepts of the code editor
SpecAccept == Init /\ [][AcceptNext]_vars
\* the text control's delayed completion query
BtcSpec == Init /\ [][BtcNext]_vars
\* two code editors and the list of recent completions
SharedSpec == Init /\ [][SharedNext]_vars
\* the code editor's session under the Backspace key
BackspaceSpec == Init /\ [][BackspaceNext]_vars
\* the code editor's anchor under edits of the document
EditSpec == Init /\ [][EditNext]_vars
\* the line parser applied to the texts up to MaxText characters
ParseInit == AcInit /\ BtcInit /\ ParseCalled /\ ShellInit
ParseSpec == ParseInit /\ [][ParseLine]_vars
\* the shell tabs and the debug button
ShellSpec == Init /\ [][ShellNext]_vars

\* ------------------------------------------------- AutoCompletion: claims
Open == autocompleteStart # None
\* some string of the list starts with the prefix, case-insensitively
Matches(list, prefix) ==
  \E i \in 1..Len(list) :
    /\ Len(prefix) <= Len(list[i])
    /\ \A k \in 1..Len(prefix) : LowerChar(list[i][k]) = LowerChar(prefix[k])

\* C1: a key press handled while the session is Open that leaves the cursor
\* at or after the anchor (an alphanumeric character or '_' typed at or after
\* the anchor, Backspace with the cursor past the anchor) recomputes the
\* prefix as the text between the anchor and the cursor, and the session
\* stays Open, with the same anchor, if and only if some string of the
\* completer's list starts with that prefix case-insensitively.
C1_KeyPressUpdatesPrefix ==
  [][\A key \in {"a", "_", Key_Backspace} :
       ( /\ Open
         /\ IF key = Key_Backspace THEN cur > autocompleteStart
                                   ELSE cur >= autocompleteStart
         /\ last'.op = "keyPressEvent"
         /\ KeyPressEvent(key, TRUE) )
       => LET prefix == SubSeq(buf', autocompleteStart + 1, cur')
          IN /\ last'.eff.fwd
             /\ last'.eff.prefixSet
             /\ last'.eff.prefix = prefix
             /\ Open' <=> Matches(completerModel, prefix)
             /\ Open' => autocompleteStart' = autocompleteStart
             /\ completerModel' = completerModel
    ]_vars

\* C1 witness: a typed character made a two-character prefix that no string
\* of a non-empty list starts with, and the session was closed
C1_Witness ==
  /\ last.op = "keyPressEvent"
  /\ last.eff.prefixSet
  /\ last.eff.prefix = <<"a", "a">>
  /\ ~Open
  /\ Len(completerModel) = 2

\* C2: an open request autocompleteShow(offset, names) issued while the
\* session is Closed ends with the session Open, the anchor at cursor - offset
\* and names as the completer's list, whenever some element of names starts
\* with the text between that anchor and the cursor, whatever list was
\* installed before.
C2_OpenRequestOpens ==
  [][\A offset \in 0..MaxOffset, names \in NameLists :
       ( /\ AutocompleteShow(offset, names)
         /\ ~Open
         /\ offset <= cur
         /\ Matches(names, SubSeq(buf, cur - offset + 1, cur)) )
       => /\ autocompleteStart' = cur - offset
          /\ completerModel' = names
    ]_vars

\* C4: accepting text while the session is Open replaces exactly the text
\* between the anchor and the cursor with it, keeps the text before and after,
\* closes the session and leaves the text last in the recent completions.
C4_AcceptReplacesPrefix ==
  [][\A i \in 1..Len(completerModel) :
       (OnAutoComplete(completerModel[i], MaxAccepts) /\ Open)
       => LET text == completerModel[i]
              lo == IF cur < autocompleteStart THEN cur ELSE autocompleteStart
              hi == IF cur < autocompleteStart THEN autocompleteStart ELSE cur
          IN /\ Len(buf') = Len(buf) - (hi - lo) + Len(text)
             /\ \A k \in 1..lo : buf'[k] = buf[k]
             /\ \A k \in 1..Len(text) : buf'[lo + k] = text[k]
             /\ \A k \in (hi + 1)..Len(buf) : buf'[k - (hi - lo) + Len(text)] = buf[k]
             /\ ~Open'
             /\ ~last'.eff.raised
             /\ recentCompletions' # << >>
             /\ recentCompletions'[Len(recentCompletions')] = text
    ]_vars

\* C4 witness: an accept that replaced a prefix with a different text, with
\* text before the anchor and text after the cursor
C4_Witness ==
  /\ last.op = "onAutoComplete"
  /\ ~last.eff.raised
  /\ buf = <<"_", "a", "_">>
  /\ cur = 2
  /\ recentCompletions = << <<"a">> >>

\* the accepted texts, each kept at its last acceptance only
KeepLast(h) ==
  LET ix == SelectSeq([i \in 1..Len(h) |-> i],
                      LAMBDA i : \A j \in (i + 1)..Len(h) : h[j] # h[i])
  IN [k \in 1..Len(ix) |-> h[ix[k]]]

\* C5: starting from an empty list, the recent completions hold every
\* accepted text exactly once, in the order of the last acceptances, the most
\* recent last (so that accepting a text again moves it to the end and keeps
\* the order of the others).
C5_RecentIsHistory ==
  /\ recentCompletions = KeepLast(accepted)
  /\ \A i, j \in 1..Len(recentCompletions) :
       recentCompletions[i] = recentCompletions[j] => i = j

\* C5 witness: a text accepted, then another, then the first again
C5_Witness ==
  /\ Len(accepted) = 3
  /\ accepted[1] = accepted[3]
  /\ accepted[1] # accepted[2]
  /\ Len(recentCompletions) = 2
  /\ last.op = "onAutoComplete"

\* an operation that moves the text cursor and leaves the text alone
CursorMove ==
  \/ KeyPressEvent(Key_Left, TRUE)
  \/ KeyPressEvent(Key_Right, TRUE)
  \/ \E p \in 0..Len(buf) : SetTextCursor(p)

C7_EscapeCancels ==
  [][(KeyPressEvent(Key_Escape, TRUE) /\ Open)
       => /\ ~Open'
          /\ ~popupVisible'
          /\ ~last'.eff.fwd
          /\ UNCHANGED <<buf, cur, completerModel, completerNames, recentCompletions>>
    ]_vars

\* C7 witness: a key press that was consumed and closed the session, with
\* text in the editor and a recent completion recorded
C7_Witness ==
  /\ last.op = "keyPressEvent"
  /\ ~last.eff.fwd
  /\ ~Open
  /\ buf # << >>
  /\ recentCompletions # << >>

\* C8: a reopen request while the session is Open whose anchor equals the
\* current anchor keeps the anchor, neither shows nor positions the popup,
\* makes names the completer's list, and keeps the session Open when some
\* element of names matches the current prefix.
C8_ReopenSameAnchor ==
  [][\A offset \in 0..MaxOffset, names \in NameLists :
       ( /\ AutocompleteShow(offset, names)
         /\ Open
         /\ offset <= cur
         /\ cur - offset = autocompleteStart )
       => /\ ~last'.eff.shown
          /\ ~last'.eff.positioned
          /\ Open' => autocompleteStart' = autocompleteStart
          /\ completerModel' = names
          /\ Matches(names, SubSeq(buf, autocompleteStart + 1, cur)) => Open'
    ]_vars

\* C9: after autocompleteShow(offset, names) with names given, the completer's
\* list is exactly names.
C9_NamesInstalled ==
  [][\A offset \in 0..MaxOffset, names \in NameLists :
       AutocompleteShow(offset, names) => completerModel' = names
    ]_vars

\* C10: the row made current by the prefix update is a row of the completion
\* model, whose string starts with the prefix case-insensitively; when no
\* string of the list does, no row is made current and the session is closed.
C10_SelectedMatchesPrefix ==
  LET e == last.eff
      matching == {i \in 1..Len(completerModel) : Matches(<<completerModel[i]>>, e.prefix)}
  IN /\ e.row # 0 => /\ e.prefixSet
                     /\ e.row \in 1..Cardinality(matching)
                     /\ Open
     /\ (e.prefixSet /\ matching = {}) => (e.row = 0 /\ ~Open)
     /\ Open => matching # {}

\* C10 witness: a key press set a prefix of three characters that no string
\* of a list of two starts with
C10_Witness ==
  /\ last.op = "keyPressEvent"
  /\ last.eff.prefixSet
  /\ last.eff.prefix = <<"a", "_", "a">>
  /\ last.eff.row = 0
  /\ Len(completerModel) = 2

\* the filtered candidates for the prefix set last, in the order of the rows
\* of the completion model, and the candidate made current
Filtered ==
  LET rows == completionRows(completerModel, last.eff.prefix)
  IN [r \in 1..Len(rows) |-> completerModel[rows[r]]]
Selected == Filtered[last.eff.row]

\* C11: when some filtered candidate starts with the prefix in exact case,
\* the candidate made current starts with the prefix in exact case, whatever
\* the recent completions are.
C11_ExactCaseFirst ==
  (last.eff.row # 0 /\ \E r \in 1..Len(Filtered) : startswith(Filtered[r], last.eff.prefix))
    => startswith(Selected, last.eff.prefix)

\* C11 witness: the only recent completion matches the prefix in another case
\* only, and the candidate made current is an exact-case match that was never
\* accepted
C11_Witness ==
  /\ last.eff.row = 2
  /\ last.eff.prefix = <<"a">>
  /\ completerModel = << <<"A", "_">>, <<"a">> >>
  /\ recentCompletions = << <<"A", "_">> >>

\* C12: among the filtered candidates with the same exact-case status as the
\* candidate made current, none has a greater index in the recent completions
\* (an absent candidate counting as below every present one).
C12_MostRecentFirst ==
  last.eff.row # 0
    => \A r \in 1..Len(Filtered) :
         (startswith(Filtered[r], last.eff.prefix) <=> startswith(Selected, last.eff.prefix))
           => completionIndex(recentCompletions, Filtered[r])
                <= completionIndex(recentCompletions, Selected)

\* C12 witness: two candidates that both start with the prefix in exact case
\* were both accepted, and the one accepted last, which is the second row, is
\* made current
C12_Witness ==
  /\ last.op = "autocompleteShow"
  /\ last.eff.row = 2
  /\ last.eff.prefix = << >>
  /\ completerModel = << <<"A", "_">>, <<"a">> >>
  /\ recentCompletions = << <<"A", "_">>, <<"a">> >>

\* C21: while the session is Open, text of n characters inserted strictly
\* before the anchor shifts the anchor by exactly n, so that it designates the
\* same character of the buffer, and the removal of these n characters puts
\* the anchor back where it was.
C21_AnchorRoundTrip ==
  /\ [][\A at \in 0..MaxLen, text \in InsertTexts :
         (DocInsert(at, text) /\ Open /\ at < autocompleteStart)
           => /\ autocompleteStart' = autocompleteStart + Len(text)
              /\ SubSeq(buf', autocompleteStart' + 1, Len(buf'))
                   = SubSeq(buf, autocompleteStart + 1, Len(buf))
       ]_vars
  /\ [](last.op = "removeText" /\ last.undoes => autocompleteStart = last.start)

\* C21 witness: text was inserted before the anchor of an Open session and
\* removed again, the anchor standing after the first character and before
\* the cursor
C21_Witness ==
  /\ last.op = "removeText"
  /\ last.undoes
  /\ autocompleteStart = 1
  /\ cur = 2

\* C22: the recent completions are changed by an accept only: open and
\* reopen requests, prefix updates, cancels and key presses leave them as they
\* are; and autocompleteShow and autocompleteCancel, with the prefix updates
\* they run, leave the text of the buffer as it is.
C22_OnlyAcceptChangesRecent ==
  /\ [][recentCompletions' # recentCompletions => last'.op = "onAutoComplete"]_vars
  /\ [][last'.op \in {"autocompleteShow", "autocompleteCancel"}
         => (buf' = buf /\ recentCompletions' = recentCompletions)
       ]_vars

\* C22 witness: with a recent completion recorded and text in the buffer, a
\* key press updated the prefix, which matched nothing and closed the session
C22_Witness ==
  /\ last.op = "keyPressEvent"
  /\ last.eff.prefixSet
  /\ last.eff.row = 0
  /\ ~Open
  /\ recentCompletions = << <<"a">> >>
  /\ Len(buf) = 2

\* the filtered candidates of the second editor for the prefix it set last
OtherFiltered ==
  LET rows == completionRows(other.completerModel, other.eff.prefix)
  IN [r \in 1..Len(rows) |-> other.completerModel[rows[r]]]

\* C23: once the second editor has been given the first editor's list, the
\* two editors see the same recent completions after every operation of
\* either; the list holds the accepted texts once each, the text accepted
\* last at its end; and a candidate made current by the second editor has
\* the greatest index in that list among the filtered candidates of its
\* exact-case status, so that the text accepted last, in whichever editor, is
\* made current when it is among them.
C23_SharedRecent ==
  /\ [](other.shared => other.recent = recentCompletions)
  /\ [](other.shared => recentCompletions = KeepLast(accepted))
  /\ [][\A names \in NameLists :
         (OtherShow(0, names) /\ other.shared /\ other'.eff.row # 0)
           => LET sel == OtherFiltered'[other'.eff.row]
                  prefix == other'.eff.prefix
              IN \A r \in 1..Len(OtherFiltered') :
                   (startswith(OtherFiltered'[r], prefix) <=> startswith(sel, prefix))
                     => completionIndex(recentCompletions, OtherFiltered'[r])
                          <= completionIndex(recentCompletions, sel)
       ]_vars

\* C23 witness: the second editor accepted one text, the first editor then
\* accepted another, and the second editor's next open request made the
\* first editor's text current, the second row of its completion model
C23_Witness ==
  /\ other.shared
  /\ accepted = << <<"A", "_">>, <<"a">> >>
  /\ other.buf = <<"A", "_">>
  /\ buf = <<"a">>
  /\ other.eff.row = 2
  /\ other.eff.prefix = << >>
  /\ other.completerModel = << <<"A", "_">>, <<"a">> >>
  /\ other.recent = << <<"A", "_">>, <<"a">> >>

\* the buffer and the cursor after Backspace in the underlying editor
BackspaceApplied ==
  /\ last'.eff.fwd
  /\ cur' = Max(0, cur - 1)
  /\ buf' = IF cur > 0 THEN Replace(buf, cur - 1, cur, << >>) ELSE buf

\* C25 as claimed: while the session is Open, Backspace with the cursor
\* strictly after the anchor keeps the session Open, the prefix losing its
\* last character; Backspace with the cursor at the anchor closes the session;
\* in both cases the key is applied to the buffer.
C25_BackspaceKeepsOpen ==
  [][(KeyPressEvent(Key_Backspace, TRUE) /\ Open /\ cur >= autocompleteStart)
       => /\ BackspaceApplied
          /\ cur > autocompleteStart
               => /\ Open'
                  /\ autocompleteStart' = autocompleteStart
                  /\ last'.eff.prefix = SubSeq(buf, autocompleteStart + 1, cur - 1)
          /\ cur = autocompleteStart => ~Open'
    ]_vars

\* C25 as amended: while the session is Open, Backspace with the cursor
\* strictly after the anchor is not a closing key: the prefix becomes the text
\* between the anchor and the cursor without its last character, and the
\* session stays Open exactly when some candidate starts with that prefix,
\* which is so whenever a candidate started with the text before the key;
\* Backspace with the cursor at the anchor closes the session; in both cases
\* the key is applied to the buffer.
C25_BackspaceUpdatesPrefix ==
  [][(KeyPressEvent(Key_Backspace, TRUE) /\ Open /\ cur >= autocompleteStart)
       => /\ BackspaceApplied
          /\ cur > autocompleteStart
               => LET prefix == SubSeq(buf, autocompleteStart + 1, cur - 1)
                  IN /\ last'.eff.prefixSet /\ last'.eff.prefix = prefix
                     /\ Open' <=> Matches(completerModel, prefix)
                     /\ Open' => autocompleteStart' = autocompleteStart
                     /\ Matches(completerModel, SubSeq(buf, autocompleteStart + 1, cur))
                          => Open'
          /\ cur = autocompleteStart => ~Open'
    ]_vars

\* C25 witness: Backspace removed the second of two characters after the
\* anchor and the session stayed Open with a prefix of one character
C25_Witness ==
  /\ last.op = "keyPressEvent"
  /\ Open
  /\ autocompleteStart = 1
  /\ cur = 2
  /\ buf = <<"_", "a">>
  /\ last.eff.prefix = <<"a">>

\* C26: among the filtered candidates that tie with the candidate made
\* current on both keys (the same exact-case status and the same index in the
\* recent completions, -1 for those absent from them), the candidate made
\* current is the first in the order of the completion model.
C26_TiesKeepModelOrder ==
  last.eff.row # 0
    => \A r \in 1..(last.eff.row - 1) :
         ~ /\ startswith(Filtered[r], last.eff.prefix)
                <=> startswith(Selected, last.eff.prefix)
           /\ completionIndex(recentCompletions, Filtered[r])
                = completionIndex(recentCompletions, Selected)

\* C26 witness: two candidates that both start with the prefix in exact case
\* and are both absent from the recent completions, which are not empty; the
\* first row is made current
C26_Witness ==
  /\ last.op = "autocompleteShow"
  /\ last.eff.row = 1
  /\ last.eff.prefix = << >>
  /\ completerModel = << <<"A", "_">>, <<"a">> >>
  /\ recentCompletions = << <<"a", "a">> >>

\* C28: after every operation of AutoCompletion the popup is hidden when no
\* session is active, also after the autocompleteShow whose first prefix
\* update cancelled the session before popup().show() was called.
C28_ClosedMeansHidden ==
  autocompleteStart = None => ~popupVisible

\* C28 witness: an autocompleteShow that called popup().show() and ended
\* with the session Closed
C28_Witness ==
  /\ last.op = "autocompleteShow"
  /\ last.eff.shown
  /\ autocompleteStart = None
  /\ ~popupVisible
  /\ completerModel # << >>

Qualifying(key) ==
  /\ key # Key_Left
  /\ ord(key) >= 48 \/ ord(key) = 8
  /\ lexerPython
  /\ line' # << >>
  /\ line'[Len(line')] \in namechars \cup {"."}

\* C13: a query is posted only by the expiry of the delay timer with no key
\* press since the timer was last started, and it is the query for the line as
\* the last key press left it; every key press clears the pending line and
\* every qualifying key press stores the new line and restarts the timer; the
\* timer is single-shot, so a burst of key presses posts at most one query.
C13_QueryAfterQuietDelay ==
  /\ [][Len(requests') > Len(requests)
         => /\ \E hasShell \in BOOLEAN : Timeout(hasShell)
            /\ timerKeys = keyCount
            /\ delayLine = line
            /\ requests' = Append(requests, [base |-> parseLine_autocomplete(line).base,
                                               keys |-> keyCount])
            /\ ~timerActive'
       ]_vars
  /\ [][\A key \in TextKeys, closes \in BOOLEAN :
         TextKeyPress(key, closes)
           => /\ delayLine' \in {<< >>, line'}
              /\ Qualifying(key) <=> (delayLine' = line' /\ line' # << >>)
              /\ Qualifying(key) => timerActive'
       ]_vars
  /\ [](\A i, j \in 1..Len(requests) : requests[i].keys = requests[j].keys => i = j)

\* C13 witness: three key presses, the second of which does not qualify, and
\* then the expiry of the timer, which posted the only query
C13_Witness ==
  /\ btcLast.op = "autoComplete_do_now"
  /\ btcLast.outcome = "posted"
  /\ keyCount = 3
  /\ line = <<"a", ".", "a">>
  /\ Len(requests) = 1

\* C14: autoComplete_process returns normally, whatever the response, when
\* it handles the response to the query that autoComplete_do_now posted for
\* the current line.
C14_ProcessNeverRaises ==
  (btcLast.op = "autoComplete_process" /\ ~btcLast.stale)
    => btcLast.outcome # "raised"

\* C15: when the response to the query for the current line is the empty
\* string, autoComplete_process opens no completion list and leaves none
\* shown, whatever the pending name is and whether or not a current shell
\* with builtins exists.
C15_EmptyResponseNoList ==
  [][\A i \in 1..Len(requests), editor1 \in BOOLEAN, editor2 \in {"self", "other", "None"} :
       (Response(i, << >>, editor1, editor2) /\ requests[i].keys = keyCount)
         => ~listActive'
    ]_vars

\* C24: a response that arrives after a key press has cleared the pending
\* name is discarded without any change of state: a completion list that is
\* shown stays shown.
C24_StaleDiscardKeepsState ==
  [][\A i \in 1..Len(requests), response \in Responses,
        editor1 \in BOOLEAN, editor2 \in {"self", "other", "None"} :
       (Response(i, response, editor1, editor2) /\ autoCompName = << >>)
         => /\ btcLast'.outcome = "discarded"
            /\ UNCHANGED <<line, delayLine, timerActive, autoCompName, listActive,
                           lexerPython>>
    ]_vars

\* C29: with the Python lexer active, a key press that inserts a character
\* after which the line up to the cursor ends in a name character or a dot
\* stores that line and starts the delay timer again.
C29_InsertStartsTimer ==
  [][\A key \in {"a", ".", " "}, closes \in BOOLEAN :
       ( /\ TextKeyPress(key, closes)
         /\ lexerPython
         /\ line'[Len(line')] \in namechars \cup {"."} )
       => /\ timerActive'
          /\ delayLine' = line'
          /\ timerKeys' = keyCount'
    ]_vars

\* ----------------------------------------- parseLine_autocomplete: claims
\* the characters of a dotted name
RunChars == namechars \cup {"."}
\* 0-based start of the longest suffix of the text made of name characters
\* and dots, and that suffix
RunStart(text) ==
  CHOOSE j \in 0..Len(text) :
    /\ \A k \in (j + 1)..Len(text) : text[k] \in RunChars
    /\ j = 0 \/ text[j] \notin RunChars
Run(text) == SubSeq(text, RunStart(text) + 1, Len(text))
\* 1-based position of the last dot of a run, 0 when it has none
LastDot(run) ==
  IF \E k \in 1..Len(run) : run[k] = "." THEN rfind(run, ".") + 1 ELSE 0

\* the text is P + n1.n2.....nk + '.' + p or P + p: no '#', the run is not
\* preceded by a quote or ']', does not start with a dot and has no two
\* dots in a row
DottedForm(text) ==
  LET run == Run(text)
      j == RunStart(text)
  IN /\ \A k \in 1..Len(text) : text[k] # "#"
     /\ j > 0 => text[j] \notin {"'", "\"", "]"}
     /\ run # << >> => run[1] # "."
     /\ \A k \in 1..(Len(run) - 1) : ~(run[k] = "." /\ run[k + 1] = ".")

\* C16: for a text P + n1.n2.....nk + '.' + p the parser returns
\* (n1.n2.....nk, p), and for a text P + p it returns ('', p).
C16_DottedNames ==
  (presult.done /\ DottedForm(ptext))
    => LET run == Run(ptext)
           d == LastDot(run)
       IN /\ presult.base = SubSeq(run, 1, d - 1)
          /\ presult.name = SubSeq(run, d + 1, Len(run))

\* C16 witness: a base of two names and a partial name were returned
C16_Witness ==
  /\ presult.done
  /\ ptext = <<"a", ".", "a", ".", "a">>
  /\ presult.base = <<"a", ".", "a">>
  /\ presult.name = <<"a">>

\* the text ends in '[' ... ']' '.' p, with name characters and spaces
\* between the brackets, outside strings and comments
BracketForm(text) ==
  /\ \A k \in 1..Len(text) : text[k] \notin {"#", "'", "\""}
  /\ \E l, r \in 1..Len(text) :
       /\ l < r /\ r < Len(text)
       /\ text[l] = "[" /\ text[r] = "]" /\ text[r + 1] = "."
       /\ \A k \in (l + 1)..(r - 1) : text[k] \in namechars \cup {" "}
       /\ \A k \in (r + 2)..Len(text) : text[k] \in namechars

\* C17: for a text that ends in a bracketed expression followed by a dot and
\* a name fragment p, the parser returns the marker '[]' and p.
C17_BracketMarker ==
  (presult.done /\ BracketForm(ptext))
    => /\ presult.base = <<"[", "]">>
       /\ presult.name = SubSeq(ptext, rfind(ptext, ".") + 2, Len(ptext))

\* some '#' of the text has an even number of double quotes and of single
\* quotes before it
IsComment(text) ==
  \E i \in 1..Len(text) :
    /\ text[i] = "#"
    /\ Count(SubSeq(text, 1, i - 1), "\"") % 2 = 0
    /\ Count(SubSeq(text, 1, i - 1), "'") % 2 = 0

\* C18: for a text with a '#' that has an even number of both kinds of quote
\* before it, whichever '#' of the text that is, the parser returns ('', '').
C18_CommentLine ==
  (presult.done /\ IsComment(ptext))
    => (presult.base = << >> /\ presult.name = << >>)

\* C19: the parser returns a pair of strings for every text, and ('', '') for
\* the empty text and for every text whose last character is neither a name
\* character nor a dot.
C19_ParserTotal ==
  presult.done
    => /\ presult.base \in Seq(ParseChars)
       /\ presult.name \in Seq(ParseChars)
       /\ (ptext = << >> \/ ptext[Len(ptext)] \notin RunChars)
            => (presult.base = << >> /\ presult.name = << >>)

\* C19 witness: a dotted name followed by a space was parsed
C19_Witness ==
  /\ presult.done
  /\ ptext = <<"a", ".", "a", " ">>
  /\ presult.name = << >>

\* C20: for a text that is not a comment and ends in a dot the parser
\* returns the partial '', and the dotted name before that dot as the base.
C20_FinalDot ==
  (presult.done /\ ptext # << >> /\ ptext[Len(ptext)] = "." /\ ~IsComment(ptext))
    => /\ presult.name = << >>
       /\ DottedForm(ptext) => presult.base = SubSeq(Run(ptext), 1, Len(Run(ptext)) - 1)

\* C27: the partial returned is a suffix of the text and is made of name
\* characters only, and a base that is not one of the markers "''" and "[]"
\* is made of name characters and dots only.
C27_PartialIsIdentifier ==
  presult.done
    => /\ Len(presult.name) <= Len(ptext)
       /\ presult.name = SubSeq(ptext, Len(ptext) - Len(presult.name) + 1, Len(ptext))
       /\ \A k \in 1..Len(presult.name) : presult.name[k] \in namechars
       /\ presult.base \notin {<<"'", "'">>, <<"[", "]">>}
            => \A k \in 1..Len(presult.base) : presult.base[k] \in RunChars

\* ------------------------------------------------------ claims: shell tabs
\* C30: whatever shells were added, removed, selected or changed their debug
\* state, the DebugControl shows the trace of the current shell's debug
\* state (its frames, the current frame, "Stack Trace (i/n)"), and shows no
\* trace (text 'Debug', no menu) when the current shell has no debug state
\* or there is no current shell
C30_DebugControlShowsCurrent ==
  LET shell == getCurrentShell(ShellSelf)
      info == IF shell = None THEN NoDebugState ELSE tabs[shell + 1].debugState
  IN IF info.some /\ info.frames # << >>
       THEN /\ dbcMenu.set
            /\ dbcMenu.frames = info.frames
            /\ dbcMenu.default = info.index
            /\ dbcText = StackTraceText(info.index, Len(info.frames))
       ELSE /\ dbcMenu = NoMenu
            /\ dbcText = DebugText

====
